---- MODULE Spec2Model ----
(***************************************************************************)
(* Model of the flash-layout crate (flash-layout/src/lib.rs): Region,      *)
(* FlashLayout, EraseBlock and Range.                                      *)
(*                                                                         *)
(* The crate is a pure, read-only addressing model.  The state machine is  *)
(* a caller that owns a region table, builds a FlashLayout over it, calls  *)
(* one accessor or one lookup on it, builds a Range from the looked-up     *)
(* erase block and an end address, and drives Range::next.  Every          *)
(* operation is a function of the immutable table (and, for Range, of the  *)
(* Range value), so one call per behaviour covers every call the caller    *)
(* could make.  Every action records which operation ran (op), its         *)
(* argument (arg) and what it returned (ret for Option<EraseBlock>, val    *)
(* for u64).                                                               *)
(*                                                                         *)
(* Region indices are zero-based as in the source; the region with index i *)
(* is regs[i + 1].  Addresses and counts are integers far below 2^32, so   *)
(* no u32/u64 arithmetic of the source overflows within the bounds.        *)
(***************************************************************************)
EXTENDS Integers, Sequences, FiniteSets

VARIABLES regions, layout, op, arg, ret, val, range, yields

vars == <<regions, layout, op, arg, ret, val, range, yields>>

---------------------------------------------------------------------------
(* Bounds of the model *)

MaxRegions == 2
MaxAddr == 2
MaxEbBytes == 2
MaxEbCount == 2
MaxOver == 2

---------------------------------------------------------------------------
(* Region *)

Region(a, b, c) == [addr |-> a, eb_bytes |-> b, eb_count |-> c]

Region_addr_start(r) == r.addr

Region_len(r) == r.eb_bytes * r.eb_count

Region_addr_end(r) == r.addr + Region_len(r)

(* faulty variant: the end address counts as inside *)
Region_contains_addr_incl(r, addr) ==
    addr <= Region_addr_end(r) /\ addr >= Region_addr_start(r)

Region_contains_addr(r, addr) ==
    addr < Region_addr_end(r) /\ addr >= Region_addr_start(r)

---------------------------------------------------------------------------
(* FlashLayout *)

(* faulty variant: adjacent regions that touch are rejected *)
RECURSIVE windows_ok_ge(_, _)
windows_ok_ge(regs, i) ==
    IF i + 1 > Len(regs) THEN TRUE
    ELSE IF Region_addr_end(regs[i]) >= Region_addr_start(regs[i + 1]) THEN FALSE
    ELSE windows_ok_ge(regs, i + 1)

RECURSIVE windows_ok(_, _)
windows_ok(regs, i) ==
    IF i + 1 > Len(regs) THEN TRUE
    ELSE IF Region_addr_end(regs[i]) > Region_addr_start(regs[i + 1]) THEN FALSE
    ELSE windows_ok(regs, i + 1)

(* TRUE when validate_regions returns, FALSE when it panics *)
validate_regions(regs) ==
    IF Len(regs) = 0 THEN FALSE ELSE windows_ok(regs, 1)

FlashLayout_addr_start(regs) == Region_addr_start(regs[1])

(* faulty variant: the end of the first region *)
FlashLayout_addr_end_first(regs) == Region_addr_end(regs[1])

FlashLayout_addr_end(regs) == Region_addr_end(regs[(Len(regs) - 1) + 1])

RECURSIVE len_loop(_, _, _)
len_loop(regs, i, s) ==
    IF i > Len(regs) THEN s ELSE len_loop(regs, i + 1, s + Region_len(regs[i]))

(* faulty variant: the span of the layout, gaps included *)
FlashLayout_len_span(regs) ==
    Region_addr_end(regs[Len(regs)]) - Region_addr_start(regs[1])

FlashLayout_len(regs) == len_loop(regs, 1, 0)

---------------------------------------------------------------------------
(* EraseBlock and Option<(EraseBlock, u32)> *)

EraseBlock(i, k) == [region_idx |-> i, eb_offs_in_region |-> k]

Some(eb, r) == [some |-> TRUE, eb |-> eb, rem |-> r]

None == [some |-> FALSE, eb |-> EraseBlock(0, 0), rem |-> 0]

EraseBlock_region(regs, eb) == regs[eb.region_idx + 1]

(* faulty variant: the offset is not scaled by eb_bytes *)
EraseBlock_addr_start_unscaled(regs, eb) ==
    Region_addr_start(EraseBlock_region(regs, eb)) + eb.eb_offs_in_region

EraseBlock_addr_start(regs, eb) ==
    Region_addr_start(EraseBlock_region(regs, eb))
        + EraseBlock_region(regs, eb).eb_bytes * eb.eb_offs_in_region

EraseBlock_addr_end(regs, eb) ==
    EraseBlock_addr_start(regs, eb) + EraseBlock_region(regs, eb).eb_bytes

---------------------------------------------------------------------------
(* Lookups *)

RECURSIVE find_eb_by_addr_from(_, _, _)
find_eb_by_addr_from(regs, addr, i) ==
    IF i >= Len(regs) THEN None
    ELSE LET r == regs[i + 1] IN
         IF Region_contains_addr(r, addr)
         THEN LET addr_in_r == addr - Region_addr_start(r)
                  eb_n == addr_in_r \div r.eb_bytes
                  eb_r == addr_in_r % r.eb_bytes
              IN  Some(EraseBlock(i, eb_n), eb_r)
         ELSE find_eb_by_addr_from(regs, addr, i + 1)

find_eb_by_addr(regs, addr) == find_eb_by_addr_from(regs, addr, 0)

(* faulty variant: eb_num <= eb_n *)
RECURSIVE find_eb_by_eb_num_le(_, _, _, _)
find_eb_by_eb_num_le(regs, eb_num, i, eb_a) ==
    IF i >= Len(regs) THEN None
    ELSE LET r == regs[i + 1]
             eb_n == r.eb_count + eb_a
         IN  IF eb_num <= eb_n
             THEN Some(EraseBlock(i, eb_num - eb_a), 0)
             ELSE find_eb_by_eb_num_le(regs, eb_num, i + 1, eb_n)

RECURSIVE find_eb_by_eb_num_from(_, _, _, _)
find_eb_by_eb_num_from(regs, eb_num, i, eb_a) ==
    IF i >= Len(regs) THEN None
    ELSE LET r == regs[i + 1]
             eb_n == r.eb_count + eb_a
         IN  IF eb_num < eb_n
             THEN Some(EraseBlock(i, eb_num - eb_a), 0)
             ELSE find_eb_by_eb_num_from(regs, eb_num, i + 1, eb_n)

find_eb_by_eb_num(regs, eb_num) == find_eb_by_eb_num_from(regs, eb_num, 0, 0)

---------------------------------------------------------------------------
(* Range *)

Range(eb, e) == [live |-> TRUE, first_eb |-> eb, addr_end |-> e]

NoRange == [live |-> FALSE, first_eb |-> EraseBlock(0, 0), addr_end |-> 0]

RECURSIVE byte_ct_loop(_, _, _, _)
byte_ct_loop(regs, rng, i, byte_ct) ==
    IF i >= Len(regs) \/ i = rng.first_eb.region_idx THEN byte_ct
    ELSE byte_ct_loop(regs, rng, i + 1, byte_ct + Region_len(regs[i + 1]))

Range_addr_start(regs, rng) ==
    FlashLayout_addr_start(regs)
        + (byte_ct_loop(regs, rng, 0, 0)
           + rng.first_eb.eb_offs_in_region
               * EraseBlock_region(regs, rng.first_eb).eb_bytes)

(* faulty variant: first_eb.addr_end() > addr_end *)
Range_next_gt(regs, rng) ==
    IF rng.first_eb.region_idx > Len(regs)
    THEN [item |-> None, range |-> rng]
    ELSE IF EraseBlock_addr_end(regs, rng.first_eb) > rng.addr_end
    THEN [item |-> None, range |-> rng]
    ELSE IF /\ rng.first_eb.eb_offs_in_region
                 >= EraseBlock_region(regs, rng.first_eb).eb_count
            /\ rng.first_eb.region_idx + 1 > Len(regs)
    THEN [item |-> None, range |-> rng]
    ELSE LET eb == EraseBlock(rng.first_eb.region_idx,
                              rng.first_eb.eb_offs_in_region + 1)
         IN  [item |-> Some(eb, 0), range |-> [rng EXCEPT !.first_eb = eb]]

(* Range::next: the item returned and the Range as the call leaves it *)
Range_next(regs, rng) ==
    IF rng.first_eb.region_idx > Len(regs)
    THEN [item |-> None, range |-> rng]
    ELSE IF EraseBlock_addr_end(regs, rng.first_eb) >= rng.addr_end
    THEN [item |-> None, range |-> rng]
    ELSE IF /\ rng.first_eb.eb_offs_in_region
                 >= EraseBlock_region(regs, rng.first_eb).eb_count
            /\ rng.first_eb.region_idx + 1 > Len(regs)
    THEN [item |-> None, range |-> rng]
    ELSE LET eb == EraseBlock(rng.first_eb.region_idx,
                              rng.first_eb.eb_offs_in_region + 1)
         IN  [item |-> Some(eb, 0), range |-> [rng EXCEPT !.first_eb = eb]]

---------------------------------------------------------------------------
(* Inputs *)

(* Regions with eb_count = 0 are in: the constructor accepts them.  Regions  *)
(* with eb_bytes = 0 are left out: a Range over one never ends.              *)
Regions ==
    { Region(a, b, c) : a \in 0..MaxAddr, b \in 1..MaxEbBytes, c \in 0..MaxEbCount }

(* the table of tests/simple.rs *)
ok_layout == << Region(100, 4, 4) >>

(* addresses from just below the layout to MaxOver past its end *)
Addrs(regs) ==
    (IF FlashLayout_addr_start(regs) = 0 THEN 0 ELSE FlashLayout_addr_start(regs) - 1)
        .. (FlashLayout_addr_end(regs) + MaxOver)

(* erase-block numbers from 0 to past the last one *)
EbNums(regs) == 0 .. (Len(regs) * MaxEbCount + MaxOver)

---------------------------------------------------------------------------
(* The caller *)

Init ==
    /\ \/ \E n \in 0..MaxRegions : regions \in [1..n -> Regions]
       \/ regions = ok_layout
    /\ layout = "unbuilt"
    /\ op = "init"
    /\ arg = 0
    /\ ret = None
    /\ val = 0
    /\ range = NoRange
    /\ yields = <<>>

New ==
    /\ layout = "unbuilt"
    /\ layout' = IF validate_regions(regions) THEN "ok" ELSE "panic"
    /\ op' = "new"
    /\ UNCHANGED <<regions, arg, ret, val, range, yields>>

LayoutAddrStart ==
    /\ layout = "ok"
    /\ op = "new"
    /\ op' = "addr_start"
    /\ val' = FlashLayout_addr_start(regions)
    /\ UNCHANGED <<regions, layout, arg, ret, range, yields>>

LayoutAddrEnd ==
    /\ layout = "ok"
    /\ op = "new"
    /\ op' = "addr_end"
    /\ val' = FlashLayout_addr_end(regions)
    /\ UNCHANGED <<regions, layout, arg, ret, range, yields>>

LayoutLen ==
    /\ layout = "ok"
    /\ op = "new"
    /\ op' = "len"
    /\ val' = FlashLayout_len(regions)
    /\ UNCHANGED <<regions, layout, arg, ret, range, yields>>

FindEbByAddr ==
    /\ layout = "ok"
    /\ op = "new"
    /\ \E addr \in Addrs(regions) :
          /\ arg' = addr
          /\ ret' = find_eb_by_addr(regions, addr)
    /\ op' = "find_eb_by_addr"
    /\ UNCHANGED <<regions, layout, val, range, yields>>

FindEbByEbNum ==
    /\ layout = "ok"
    /\ op = "new"
    /\ \E eb_num \in EbNums(regions) :
          /\ arg' = eb_num
          /\ ret' = find_eb_by_eb_num(regions, eb_num)
    /\ op' = "find_eb_by_eb_num"
    /\ UNCHANGED <<regions, layout, val, range, yields>>

(* Range { layout, first_eb, addr_end } over the erase block a lookup returned *)
RangeNew ==
    /\ layout = "ok"
    /\ op \in {"find_eb_by_addr", "find_eb_by_eb_num"}
    /\ ret.some
    /\ \E addr_end \in Addrs(regions) :
          /\ arg' = addr_end
          /\ range' = Range(ret.eb, addr_end)
    /\ op' = "range"
    /\ ret' = None
    /\ UNCHANGED <<regions, layout, val, yields>>

(* Range::addr_start of the Range as constructed *)
RangeAddrStart ==
    /\ layout = "ok"
    /\ range.live
    /\ op = "range"
    /\ op' = "range_addr_start"
    /\ val' = Range_addr_start(regions, range)
    /\ UNCHANGED <<regions, layout, arg, ret, range, yields>>

RangeNext ==
    /\ layout = "ok"
    /\ range.live
    /\ LET n == Range_next(regions, range) IN
          /\ ret' = n.item
          /\ range' = n.range
          /\ yields' = IF n.item.some THEN Append(yields, n.item.eb) ELSE yields
    /\ op' = "next"
    /\ val' = 0
    /\ UNCHANGED <<regions, layout, arg>>

Next ==
    \/ New
    \/ LayoutAddrStart
    \/ LayoutAddrEnd
    \/ LayoutLen
    \/ FindEbByAddr
    \/ FindEbByEbNum
    \/ RangeNew
    \/ RangeAddrStart
    \/ RangeNext

Spec == Init /\ [][Next]_vars

(* the caller of an iterator keeps calling next() *)
FairSpec == Spec /\ WF_vars(RangeNext)

---------------------------------------------------------------------------
(* Vocabulary of the properties *)

ValidLayout(regs) ==
    \A i \in 1..Len(regs) : regs[i].eb_bytes > 0 /\ regs[i].eb_count > 0

Overlap(regs) ==
    \E i \in 1..(Len(regs) - 1) :
        regs[i].addr + regs[i].eb_bytes * regs[i].eb_count > regs[i + 1].addr

HasGap(regs) ==
    \E i \in 1..(Len(regs) - 1) :
        regs[i].addr + regs[i].eb_bytes * regs[i].eb_count < regs[i + 1].addr

InsideRegion(regs, a) ==
    \E i \in 1..Len(regs) :
        regs[i].addr <= a /\ a < regs[i].addr + regs[i].eb_bytes * regs[i].eb_count

RECURSIVE SumBytes(_)
SumBytes(regs) ==
    IF regs = <<>> THEN 0
    ELSE Head(regs).eb_bytes * Head(regs).eb_count + SumBytes(Tail(regs))

RECURSIVE SumEbCount(_)
SumEbCount(regs) ==
    IF regs = <<>> THEN 0 ELSE Head(regs).eb_count + SumEbCount(Tail(regs))

(* erase blocks of the regions before the region with (zero-based) index i *)
EbBefore(regs, i) == SumEbCount(SubSeq(regs, 1, i))

InLayout(regs, eb) ==
    /\ eb.region_idx < Len(regs)
    /\ eb.eb_offs_in_region >= 0
    /\ eb.eb_offs_in_region < regs[eb.region_idx + 1].eb_count

---------------------------------------------------------------------------
(* C1: FlashLayout::new panics exactly for the tables that are empty or    *)
(* have an adjacent pair with regions[i].addr_end > regions[i+1].addr_start *)
(* and accepts every other table, gaps included.                           *)
T_C1 ==
    layout # "unbuilt" =>
        ((layout = "panic") <=> (Len(regions) = 0 \/ Overlap(regions)))

W_C1 == layout = "panic" /\ Len(regions) = 2 /\ regions[1].addr < regions[2].addr

(* C2: addr_start() is the first region's addr_start and addr_end() is the *)
(* last region's addr + eb_bytes * eb_count; the table of tests/simple.rs  *)
(* gives 100 and 116.                                                      *)
T_C2 ==
    /\ op = "addr_start" =>
          /\ val = regions[1].addr
          /\ regions = ok_layout => val = 100
    /\ op = "addr_end" =>
          /\ val = regions[Len(regions)].addr
                     + regions[Len(regions)].eb_bytes * regions[Len(regions)].eb_count
          /\ regions = ok_layout => val = 116

W_C2 == op = "addr_end" /\ Len(regions) = 2 /\ val > regions[1].addr + 1

(* C3: on a valid layout find_eb_by_addr(a) returns, for a inside a        *)
(* region, a block b with b.addr_start <= a < b.addr_end, remainder        *)
(* a - b.addr_start and offset < eb_count; for a before the first region,  *)
(* in a gap or at/after the end it returns nothing.                        *)
T_C3 ==
    (layout = "ok" /\ ValidLayout(regions) /\ op = "find_eb_by_addr") =>
        IF InsideRegion(regions, arg)
        THEN /\ ret.some
             /\ InLayout(regions, ret.eb)
             /\ EraseBlock_addr_start(regions, ret.eb) <= arg
             /\ arg < EraseBlock_addr_end(regions, ret.eb)
             /\ ret.rem = arg - EraseBlock_addr_start(regions, ret.eb)
        ELSE ~ret.some

W_C3 ==
    /\ op = "find_eb_by_addr"
    /\ ValidLayout(regions)
    /\ HasGap(regions)
    /\ ret.some
    /\ ret.eb.region_idx = 1
    /\ ret.eb.eb_offs_in_region = 1
    /\ ret.rem = 1

(* C4: on a valid layout find_eb_by_eb_num(n) returns, for n below the     *)
(* total erase-block count, the block (i, k) with k < regions[i].eb_count  *)
(* and (erase blocks of the regions before i) + k = n; for larger n it     *)
(* returns nothing.                                                        *)
T_C4 ==
    (layout = "ok" /\ ValidLayout(regions) /\ op = "find_eb_by_eb_num") =>
        IF arg < SumEbCount(regions)
        THEN /\ ret.some
             /\ InLayout(regions, ret.eb)
             /\ EbBefore(regions, ret.eb.region_idx) + ret.eb.eb_offs_in_region = arg
        ELSE ~ret.some

W_C4 ==
    /\ op = "find_eb_by_eb_num"
    /\ ValidLayout(regions)
    /\ ret.some
    /\ ret.eb.region_idx = 1
    /\ ret.eb.eb_offs_in_region = 1

(* C5: round trip: on a valid layout, the block b a lookup returned is     *)
(* found again, with remainder 0, by find_eb_by_addr(b.addr_start()).      *)
T_C5 ==
    (/\ layout = "ok"
     /\ ValidLayout(regions)
     /\ op \in {"find_eb_by_addr", "find_eb_by_eb_num"}
     /\ ret.some) =>
        find_eb_by_addr(regions, EraseBlock_addr_start(regions, ret.eb))
            = Some(ret.eb, 0)

W_C5 ==
    /\ op = "find_eb_by_eb_num"
    /\ ValidLayout(regions)
    /\ ret.some
    /\ ret.eb.region_idx = 1
    /\ ret.eb.eb_offs_in_region = 1
    /\ regions[2].eb_bytes = 2

(* C6: len() is the sum of eb_bytes * eb_count over the regions; it is at  *)
(* most addr_end() - addr_start(), smaller exactly when some adjacent pair *)
(* of regions has a gap.                                                   *)
T_C6 ==
    op = "len" =>
        /\ val = SumBytes(regions)
        /\ val <= FlashLayout_addr_end(regions) - FlashLayout_addr_start(regions)
        /\ (val < FlashLayout_addr_end(regions) - FlashLayout_addr_start(regions))
              <=> HasGap(regions)

W_C6 ==
    /\ op = "len"
    /\ HasGap(regions)
    /\ val > 0
    /\ val < FlashLayout_addr_end(regions) - FlashLayout_addr_start(regions)

(* C7: when the cursor of a Range is the last erase block of its region,   *)
(* a further region follows and the end address lies beyond the cursor's   *)
(* region, the erase block next() yields is offset 0 of the next region.   *)
AtRegionEnd ==
    /\ layout = "ok"
    /\ ValidLayout(regions)
    /\ range.live
    /\ range.first_eb.region_idx + 1 < Len(regions)
    /\ range.first_eb.eb_offs_in_region + 1
          = EraseBlock_region(regions, range.first_eb).eb_count
    /\ range.addr_end > Region_addr_end(EraseBlock_region(regions, range.first_eb))

CE_C7 ==
    [][(AtRegionEnd /\ op' = "next" /\ ret'.some) =>
          ret'.eb = EraseBlock(range.first_eb.region_idx + 1, 0)]_vars

(* C8: every erase block a lookup returns or Range::next yields on a valid *)
(* layout has region index < number of regions and offset < the region's   *)
(* eb_count.                                                               *)
CE_C8 ==
    (/\ layout = "ok"
     /\ ValidLayout(regions)
     /\ op \in {"find_eb_by_addr", "find_eb_by_eb_num", "next"}
     /\ ret.some) =>
        InLayout(regions, ret.eb)

(* C9: Range::addr_start() is the start address of the Range's erase       *)
(* block, region.addr_start + eb_offs_in_region * region.eb_bytes, on      *)
(* layouts with gaps too.                                                  *)
CE_C9 ==
    (layout = "ok" /\ ValidLayout(regions) /\ op = "range_addr_start") =>
        val = EraseBlock_region(regions, range.first_eb).addr
                + range.first_eb.eb_offs_in_region
                    * EraseBlock_region(regions, range.first_eb).eb_bytes

(* C10: Range iteration is finite and not restartable: a next() that       *)
(* yields moves the cursor one erase block on and yields the cursor; it    *)
(* returns nothing as soon as the next block's start (the cursor's end)    *)
(* reaches addr_end; every yielded block starts below addr_end and as many *)
(* addresses lie below its start as blocks were yielded, so fewer than     *)
(* addr_end calls yield; after a call that returned nothing, the next call *)
(* returns nothing; over tests/simple.rs's table, from offset 0 with end   *)
(* 116, the yields are offsets 1, 2, 3; and under the caller that keeps    *)
(* calling, every Range reaches a call that returns nothing.               *)
NextStep ==
    /\ op' = "next"
    /\ IF ret'.some
       THEN /\ range'.first_eb
                 = EraseBlock(range.first_eb.region_idx,
                              range.first_eb.eb_offs_in_region + 1)
            /\ range'.addr_end = range.addr_end
            /\ ret'.eb = range'.first_eb
            /\ yields' = Append(yields, ret'.eb)
            /\ EraseBlock_addr_start(regions, ret'.eb) < range.addr_end
            /\ Len(yields') <= EraseBlock_addr_start(regions, ret'.eb)
       ELSE range' = range /\ yields' = yields
    /\ EraseBlock_addr_end(regions, range.first_eb) >= range.addr_end => ~ret'.some
    /\ (op = "next" /\ ~ret.some) => ~ret'.some
    /\ (/\ regions = ok_layout
        /\ range.addr_end = 116
        /\ ~ret'.some
        /\ range.first_eb.eb_offs_in_region = Len(yields)) =>
            yields' = << EraseBlock(0, 1), EraseBlock(0, 2), EraseBlock(0, 3) >>

Exhausted == op = "next" /\ ~ret.some

T_C10 == [][op' = "next" => NextStep]_vars /\ (range.live ~> Exhausted)

W_C10 ==
    /\ Exhausted
    /\ regions = ok_layout
    /\ range.addr_end = 116
    /\ yields = << EraseBlock(0, 1), EraseBlock(0, 2), EraseBlock(0, 3) >>

====
